---------------------------- MODULE Spec2Model ----------------------------
(***************************************************************************)
(* Model of the SHA3 trace capture of ot-sca:                              *)
(*   capture/capture_sha3.py  (main, capture, generate_ref_crypto,         *)
(*                             check_ciphertext, abort_handler_during_loop)*)
(*   util/data_generator.py   (the module-level generator instance)        *)
(*                                                                         *)
(* Byte strings are sequences of numbers 0..255.  Python's None and a not  *)
(* yet bound local are the empty sequence.  The host PRNG (random.randint),*)
(* the scope and the device are the environment: their results are chosen  *)
(* from small sets.                                                        *)
(***************************************************************************)
EXTENDS Integers, Sequences, FiniteSets, TLC

VARIABLES
    cfg,                  \* main: cfg (which_test, num_segments) when capture starts
    capture_cfg,          \* CaptureConfig built by main
    pc,                   \* position of the process in main/capture
    text,                 \* capture: text
    ciphertext,           \* capture: ciphertext (unbound = <<>>)
    sample_fixed,         \* capture: sample_fixed
    plaintext,            \* capture: plaintext, the block drawn in sha3_random
    expected_ciphertext,  \* capture: expected_ciphertext (None = <<>>)
    remaining_num_traces, \* capture: remaining_num_traces
    seg,                  \* capture: index i of the segment loop
    waves,                \* shape of the transferred wave block
    handler_registered,   \* SIGINT handler installed (line 284)
    project_traces,       \* traces appended to the project
    project_saved,        \* traces the project has persisted
    exit_status,          \* "running", "success" or "failure"
    error,                \* the exception that ended the process, or "none"
    dummy_plaintext,      \* generate_ref_crypto: last dummy_plaintext
    device_fixed_msg,     \* device: message set by fvsr_fixed_msg_set
    device_msg,           \* device: last message given to absorb
    device_batch,         \* device: last segment count given to absorb_batch
    actual_last_ciphertext, \* check_ciphertext: bytes read back from the device
    arm_count,            \* history: calls of scope.arm
    trigger_count,        \* history: calls of absorb / absorb_batch
    read_count,           \* history: calls of read_ciphertext
    sel_history,          \* history: sample_fixed passed to each generate_ref_crypto call
    dummy_history,        \* history: first byte of each dummy draw
    iter_digests,         \* history: digests generated since the last arm
    iter_appended,        \* history: traces appended since the last arm
    mismatched,           \* history: a digest mismatch was detected
    prng_count,           \* history: calls of random.randint
    gen,                  \* data_generator: the instance under test
    gen_ref,              \* data_generator: a fresh instance driven alongside
    gen_phase,            \* "pre" until set_start, then "sync"
    gen_out,              \* what the last getter call on gen returned
    gen_ref_out,          \* what the last getter call on gen_ref returned
    gen_op,               \* the last method called on gen
    gen_before,           \* gen before the last call
    gen_calls,            \* number of calls made on gen
    gen_reset_from,       \* gen as the last set_start found it
    fixed_pts,            \* plaintexts of the current run of fixed getter calls
    random_pts,           \* plaintexts of the current run of random getter calls
    fold_inputs,          \* digests of one batch
    fold_order,           \* the order in which they are folded
    fold_acc,             \* accumulator fed from the front of the order
    fold_tail,            \* accumulator fed from the back of the order
    fold_left,            \* number of digests folded into fold_acc
    fold_right,           \* number of digests folded into fold_tail
    fold_result           \* the joined accumulator (None until joined)

vars == <<cfg, capture_cfg, pc, text, ciphertext, sample_fixed, plaintext,
          expected_ciphertext, remaining_num_traces, seg, waves,
          handler_registered, project_traces, project_saved, exit_status,
          error, dummy_plaintext, device_fixed_msg, device_msg, device_batch,
          actual_last_ciphertext, arm_count, trigger_count, read_count, sel_history, dummy_history,
          iter_digests, iter_appended, mismatched, prng_count,
          gen, gen_ref, gen_phase, gen_out, gen_ref_out, gen_op, gen_before,
          gen_calls, gen_reset_from, fixed_pts, random_pts,
          fold_inputs, fold_order, fold_acc, fold_tail, fold_left, fold_right,
          fold_result>>

-----------------------------------------------------------------------------
(* Bounds of the model. *)

MaxTraces == 3
MaxSegments == 2
MaxTextLen == 2

(* Program constants. *)

DigestLen == 32
DummyLen == 16
RandomBlockLen == 16

None == <<>>

-----------------------------------------------------------------------------
(* Bytes and byte strings. *)

RECURSIVE XorByte(_, _)
XorByte(a, b) ==
    IF a = 0 THEN b
    ELSE IF b = 0 THEN a
    ELSE (((a % 2) + (b % 2)) % 2) + (2 * XorByte(a \div 2, b \div 2))

Min(a, b) == IF a <= b THEN a ELSE b

(* Byte-wise difference in place of the exclusive or. *)
XorZipSub(x, y) == [k \in 1..Min(Len(x), Len(y)) |-> ((x[k] + 256) - y[k]) % 256]

(* [a ^ b for (a, b) in zip(x, y)]: zip stops at the shorter argument. *)
XorZip(x, y) == [k \in 1..Min(Len(x), Len(y)) |-> XorByte(x[k], y[k])]

(* s[0:n] *)
Slice(s, n) == [k \in 1..Min(Len(s), n) |-> s[k]]

LowBit(b) == b % 2

(* Values random.randint(0, 255) is taken to return: one of each parity. *)
DrawBytes == {0, 255}

(* n bytes drawn from the host PRNG: the first byte varies over DrawBytes. *)
RandomBytes(n) == { [k \in 1..n |-> IF k = 1 THEN b ELSE 0] : b \in DrawBytes }

-----------------------------------------------------------------------------
(* Reference digest.  SHA3_256 is a library primitive; it is modelled by a  *)
(* fixed mixing function of the message with a 32 byte result.              *)

RECURSIVE MixBytes(_)
MixBytes(msg) ==
    IF msg = <<>> THEN 0
    ELSE ((MixBytes(SubSeq(msg, 1, Len(msg) - 1)) * 31) + msg[Len(msg)] + 1) % 65521

SHA3_256(msg) ==
    [k \in 1..DigestLen |-> (((MixBytes(msg) + 7) * ((2 * k) + 1)) + Len(msg)) % 256]

-----------------------------------------------------------------------------
(* util/data_generator.py: the names the module exports. *)

DgExports == {"set_start", "get_fixed", "get_random", "get_kmac_fixed", "get_kmac_random"}

(* The block size of the generator cipher and the length of a KMAC tag. *)
BlockLen == 16
MacLen == 32

(* AES in ECB mode on one block is a library primitive; it is modelled by a *)
(* keyed permutation of the blocks.                                         *)
AESEncrypt(key, block) ==
    [i \in 1..BlockLen |->
        ((XorByte(block[(i % BlockLen) + 1], key[i]) * 5) + (17 * i)) % 256]

(* KMAC128 is a library primitive; it is modelled by a fixed mixing         *)
(* function of key and message with a mac_len byte result.                  *)
KMAC128(key, msg) ==
    [k \in 1..MacLen |->
        (((MixBytes(key \o msg) + 11) * ((2 * k) + 3)) + Len(msg)) % 256]

key_generation == <<18, 52, 86, 120, 154, 188, 222, 241,
                    35, 69, 103, 137, 171, 205, 224, 240>>

(* The class attributes: the state of an instance nothing has been called on. *)
InitialGenerator ==
    [text_fixed  |-> [k \in 1..BlockLen |-> 170],
     text_random |-> [k \in 1..BlockLen |-> 204],
     key_fixed   |-> <<129, 30, 55, 49, 176, 18, 10, 120,
                       66, 120, 30, 34, 178, 92, 221, 249>>,
     key_random  |-> [k \in 1..BlockLen |-> 83]]

(* set_start that leaves key_random as it is. *)
set_startKeepKeyRandom(g) ==
    [InitialGenerator EXCEPT !.key_random = g.key_random]

set_start(g) ==
    [text_fixed  |-> [k \in 1..BlockLen |-> 170],
     text_random |-> [k \in 1..BlockLen |-> 204],
     key_fixed   |-> <<129, 30, 55, 49, 176, 18, 10, 120,
                       66, 120, 30, 34, 178, 92, 221, 249>>,
     key_random  |-> [k \in 1..BlockLen |-> 83]]

(* advance_fixed that re-encrypts the fixed key as well. *)
advance_fixedWithKey(g) ==
    [g EXCEPT !.text_fixed = AESEncrypt(key_generation, g.text_fixed),
              !.key_fixed = AESEncrypt(key_generation, g.key_fixed)]

advance_fixed(g) ==
    [g EXCEPT !.text_fixed = AESEncrypt(key_generation, g.text_fixed)]

advance_random(g) ==
    [g EXCEPT !.text_random = AESEncrypt(key_generation, g.text_random),
              !.key_random = AESEncrypt(key_generation, g.key_random)]

(* What a getter returns, and the instance after the call. *)
GetterResult(pt, ct, key, self) == [pt |-> pt, ct |-> ct, key |-> key, self |-> self]

(* get_fixed that advances before it reads the block. *)
get_fixedAdvanceFirst(g) ==
    LET a == advance_fixed(g)
    IN  GetterResult(a.text_fixed, AESEncrypt(a.key_fixed, a.text_fixed),
                     a.key_fixed, a)

get_fixed(g) ==
    GetterResult(g.text_fixed, AESEncrypt(g.key_fixed, g.text_fixed),
                 g.key_fixed, advance_fixed(g))

get_random(g) ==
    GetterResult(g.text_random, AESEncrypt(g.key_random, g.text_random),
                 g.key_random, advance_random(g))

get_kmac_fixed(g) ==
    GetterResult(g.text_fixed, KMAC128(g.key_fixed, g.text_fixed),
                 g.key_fixed, advance_fixed(g))

get_kmac_random(g) ==
    GetterResult(g.text_random, KMAC128(g.key_random, g.text_random),
                 g.key_random, advance_random(g))

-----------------------------------------------------------------------------
(* main: configuration. *)

WhichTests == {"sha3_fvsr_data", "sha3_random", "sha3_fvsr_data_batch", "sha3_random_batch"}

(* "sha3_random" in which_test *)
ContainsSha3Random(w) == w \in {"sha3_random", "sha3_random_batch"}

(* "batch" in which_test *)
ContainsBatch(w) == w \in {"sha3_fvsr_data_batch", "sha3_random_batch"}

SmallOutputLen == 2
OutputLens == {SmallOutputLen, DigestLen}

(* test.text_fixed of the configuration: 0xAA repeated. *)
FixedTexts(n) == { [k \in 1..n |-> 170] }

(* main, lines 391-403: the loaded configuration; outside batch mode its  *)
(* num_segments is overwritten with 1.                                     *)
MainCfg(which_test, num_segments) ==
    [which_test   |-> which_test,
     num_segments |-> IF ContainsBatch(which_test) THEN num_segments ELSE 1]

MainConfig(which_test, num_traces, num_segments, output_len, text_len_bytes, text_fixed) ==
    [capture_mode   |-> IF ContainsSha3Random(which_test) THEN "sha3_random" ELSE "sha3_fvsr_data",
     batch_mode     |-> ContainsBatch(which_test),
     num_traces     |-> num_traces,
     num_segments   |-> IF ContainsBatch(which_test) THEN num_segments ELSE 1,
     output_len     |-> output_len,
     text_fixed     |-> text_fixed,
     text_len_bytes |-> text_len_bytes]

-----------------------------------------------------------------------------
(* generate_ref_crypto: the set of results of one call.  raised names the   *)
(* exception the call ends with, "none" for a normal return.                *)

GenResult(raised, pt, ct, sf, dummy, draws) ==
    [raised |-> raised, plaintext |-> pt, ciphertext |-> ct,
     sample_fixed |-> sf, dummy |-> dummy, draws |-> draws]

(* The selector of the next sample in batch mode. *)
NextSampleFixedBatch(dummy) == LowBit(dummy[1])

(* Every batch segment draws the plaintext of a fixed segment as well. *)
BatchDrawCountAlways(sf, tlen) == tlen + DummyLen

(* random.randint calls of one batch segment (lines 211-222). *)
BatchDrawCount(sf, tlen) == (IF sf # 0 THEN 0 ELSE tlen) + DummyLen

generate_ref_crypto(sf, mode, batch, pt, pt_fixed, tlen) ==
    IF mode = "sha3_fvsr_data" /\ ~batch
    THEN LET getter == IF sf # 0 THEN "get_sha3_fixed" ELSE "get_sha3_random"
         IN  \* dg defines neither name: the attribute lookup raises.
             IF getter \notin DgExports
             THEN {GenResult("AttributeError", pt, None, sf, None, 0)}
             ELSE {}
    ELSE IF mode = "sha3_random"
    THEN {GenResult("none", pt, SHA3_256(pt), sf, None, 0)}
    ELSE { LET p == IF sf # 0 THEN pt_fixed ELSE rp
           IN  GenResult("none", p, SHA3_256(p), NextSampleFixedBatch(d), d,
                         BatchDrawCount(sf, tlen)) :
             rp \in RandomBytes(tlen), d \in RandomBytes(DummyLen) }

-----------------------------------------------------------------------------
(* Batch folding (capture, lines 337-344). *)

(* The accumulator is overwritten instead of folded. *)
FoldNoXor(batch, expected, ct) == ct

Fold(batch, expected, ct) ==
    IF batch
    THEN IF expected = None THEN ct ELSE XorZip(ct, expected)
    ELSE ct

-----------------------------------------------------------------------------
(* Environment. *)

WaveShapes == [segments : 1..(MaxSegments + 1), samples : 0..1]

Corrupt(s, k) == [s EXCEPT ![k] = XorByte(@, 1)]

(* What read_ciphertext(n) may return when the host expects exp. *)
DeviceReports(exp, n) ==
    LET good == Slice(exp, n)
    IN  {good} \cup (IF Len(good) > 0
                     THEN {Corrupt(good, 1), Corrupt(good, Len(good))}
                     ELSE {})

-----------------------------------------------------------------------------
(* A session that starts with the fixed sample. *)
InitialSampleFixedOne == LowBit(1)

(* capture, line 275. *)
InitialSampleFixed == 0

(* capture, lines 268-278: the locals of capture before the first statement *)
(* that touches the device, and the histories.                              *)
CaptureLocals ==
    /\ text = capture_cfg.text_fixed
    /\ ciphertext = None
    /\ sample_fixed = InitialSampleFixed
    /\ plaintext = None
    /\ expected_ciphertext = None
    /\ remaining_num_traces = 0
    /\ seg = 0
    /\ waves = [segments |-> 0, samples |-> 0]
    /\ handler_registered = FALSE
    /\ project_traces = <<>>
    /\ project_saved = <<>>
    /\ exit_status = "running"
    /\ error = "none"
    /\ dummy_plaintext = None
    /\ device_fixed_msg = None
    /\ device_msg = None
    /\ device_batch = 0
    /\ actual_last_ciphertext = None
    /\ arm_count = 0
    /\ trigger_count = 0
    /\ read_count = 0
    /\ sel_history = <<>>
    /\ dummy_history = <<>>
    /\ iter_digests = <<>>
    /\ iter_appended = 0
    /\ mismatched = FALSE
    /\ prng_count = 0

cfgVars == <<cfg, capture_cfg>>
loopVars == <<text, ciphertext, sample_fixed, plaintext, expected_ciphertext,
              remaining_num_traces, seg, waves, dummy_plaintext>>
projectVars == <<project_traces, project_saved>>
deviceVars == <<device_fixed_msg, device_msg, device_batch, actual_last_ciphertext>>
histVars == <<arm_count, trigger_count, read_count, sel_history, dummy_history,
              iter_digests, iter_appended, mismatched, prng_count>>
genVars == <<gen, gen_ref, gen_phase, gen_out, gen_ref_out, gen_op, gen_before,
             gen_calls, gen_reset_from, fixed_pts, random_pts>>
foldVars == <<fold_inputs, fold_order, fold_acc, fold_tail, fold_left,
              fold_right, fold_result>>
captureVars == <<cfgVars, pc, loopVars, projectVars, deviceVars, histVars,
                 handler_registered, exit_status, error>>

(* The generator instance and the fold unit while the capture runs. *)
GenIdle ==
    /\ gen = InitialGenerator
    /\ gen_ref = InitialGenerator
    /\ gen_phase = "pre"
    /\ gen_out = None
    /\ gen_ref_out = None
    /\ gen_op = "none"
    /\ gen_before = InitialGenerator
    /\ gen_calls = 0
    /\ gen_reset_from = InitialGenerator
    /\ fixed_pts = <<>>
    /\ random_pts = <<>>

FoldIdle ==
    /\ fold_inputs = <<>>
    /\ fold_order = <<>>
    /\ fold_acc = None
    /\ fold_tail = None
    /\ fold_left = 0
    /\ fold_right = 0
    /\ fold_result = None

(* main, lines 391-418, and capture up to line 278. *)
Init ==
    /\ \E w \in WhichTests, nt \in 1..MaxTraces, ns \in 1..MaxSegments,
          ol \in OutputLens, tl \in 1..MaxTextLen :
         \E tf \in FixedTexts(tl) :
            /\ cfg = MainCfg(w, ns)
            /\ capture_cfg = MainConfig(w, nt, ns, ol, tl, tf)
    /\ pc = "start"
    /\ CaptureLocals
    /\ GenIdle
    /\ FoldIdle

-----------------------------------------------------------------------------
(* capture, lines 280-281: in batch mode the fixed message goes to the device. *)
SetFixedMsg ==
    /\ pc = "start"
    /\ device_fixed_msg' = IF capture_cfg.batch_mode
                           THEN capture_cfg.text_fixed
                           ELSE device_fixed_msg
    /\ pc' = "register"
    /\ UNCHANGED <<cfgVars, genVars, foldVars, loopVars, projectVars, histVars, handler_registered,
                   exit_status, error, device_msg, device_batch,
                   actual_last_ciphertext>>

(* The SIGINT handler is not installed. *)
RegisterHandlerNoInstall ==
    /\ pc = "register"
    /\ handler_registered' = FALSE
    /\ remaining_num_traces' = capture_cfg.num_traces
    /\ pc' = "while"
    /\ UNCHANGED <<cfgVars, genVars, foldVars, text, ciphertext, sample_fixed, plaintext,
                   expected_ciphertext, seg, waves, dummy_plaintext, projectVars,
                   deviceVars, histVars, exit_status, error>>

(* capture, lines 284-286: install the SIGINT handler, initialise the counter. *)
RegisterHandler ==
    /\ pc = "register"
    /\ handler_registered' = TRUE
    /\ remaining_num_traces' = capture_cfg.num_traces
    /\ pc' = "while"
    /\ UNCHANGED <<cfgVars, genVars, foldVars, text, ciphertext, sample_fixed, plaintext,
                   expected_ciphertext, seg, waves, dummy_plaintext, projectVars,
                   deviceVars, histVars, exit_status, error>>

(* The selector is set back to its initial value for every batch. *)
ArmReinitSelector ==
    /\ pc = "while"
    /\ remaining_num_traces > 0
    /\ arm_count' = arm_count + 1
    /\ iter_digests' = <<>>
    /\ iter_appended' = 0
    /\ sample_fixed' = InitialSampleFixed
    /\ pc' = "trigger"
    /\ UNCHANGED <<cfgVars, genVars, foldVars, text, ciphertext, plaintext, expected_ciphertext,
                   remaining_num_traces, seg, waves, dummy_plaintext,
                   projectVars, deviceVars, handler_registered,
                   exit_status, error, trigger_count, read_count, sel_history,
                   dummy_history, mismatched, prng_count>>

(* capture, lines 288-290: loop test and scope.arm(). *)
Arm ==
    /\ pc = "while"
    /\ remaining_num_traces > 0
    /\ arm_count' = arm_count + 1
    /\ iter_digests' = <<>>
    /\ iter_appended' = 0
    /\ pc' = "trigger"
    /\ UNCHANGED <<cfgVars, genVars, foldVars, loopVars, projectVars, deviceVars, handler_registered,
                   exit_status, error, trigger_count, read_count, sel_history,
                   dummy_history, mismatched, prng_count>>

(* capture, line 288: the loop ends; capture returns to main. *)
CaptureReturn ==
    /\ pc = "while"
    /\ remaining_num_traces <= 0
    /\ pc' = "return"
    /\ UNCHANGED <<cfgVars, genVars, foldVars, loopVars, projectVars, deviceVars, histVars,
                   handler_registered, exit_status, error>>

(* capture, lines 292-295: batch trigger. *)
AbsorbBatch ==
    /\ pc = "trigger"
    /\ capture_cfg.batch_mode
    /\ device_batch' = capture_cfg.num_segments
    /\ trigger_count' = trigger_count + 1
    /\ pc' = "transfer"
    /\ UNCHANGED <<cfgVars, genVars, foldVars, loopVars, projectVars, device_fixed_msg, device_msg,
                   actual_last_ciphertext,
                   handler_registered, exit_status, error, arm_count, read_count,
                   sel_history, dummy_history, iter_digests, iter_appended,
                   mismatched, prng_count>>

(* capture, lines 296-307: non-batch trigger.  In sha3_fvsr_data mode the   *)
(* stimulus is generated first; absorb(text) follows a normal return.       *)
Absorb ==
    /\ pc = "trigger"
    /\ ~capture_cfg.batch_mode
    /\ IF capture_cfg.capture_mode = "sha3_fvsr_data"
       THEN \E r \in generate_ref_crypto(sample_fixed, capture_cfg.capture_mode,
                                         capture_cfg.batch_mode, text,
                                         capture_cfg.text_fixed,
                                         capture_cfg.text_len_bytes) :
              /\ sel_history' = Append(sel_history, sample_fixed)
              /\ IF r.raised # "none"
                 THEN /\ pc' = "raised"
                      /\ error' = r.raised
                      /\ UNCHANGED <<text, ciphertext, sample_fixed, device_msg,
                                     trigger_count, iter_digests>>
                 ELSE /\ text' = r.plaintext
                      /\ ciphertext' = r.ciphertext
                      /\ sample_fixed' = r.sample_fixed
                      /\ iter_digests' = Append(iter_digests, r.ciphertext)
                      /\ device_msg' = r.plaintext
                      /\ trigger_count' = trigger_count + 1
                      /\ pc' = "transfer"
                      /\ UNCHANGED error
       ELSE /\ device_msg' = text
            /\ trigger_count' = trigger_count + 1
            /\ pc' = "transfer"
            /\ UNCHANGED <<text, ciphertext, sample_fixed, error, sel_history,
                           iter_digests>>
    /\ UNCHANGED <<cfgVars, genVars, foldVars, plaintext, expected_ciphertext, remaining_num_traces,
                   seg, waves, dummy_plaintext, projectVars, device_fixed_msg,
                   device_batch, actual_last_ciphertext, handler_registered, exit_status, arm_count,
                   read_count, dummy_history, iter_appended, mismatched,
                   prng_count>>

(* capture, line 309: scope.capture_and_transfer_waves. *)
TransferWaves ==
    /\ pc = "transfer"
    /\ \E w \in WaveShapes : waves' = w
    /\ pc' = "waves"
    /\ UNCHANGED <<cfgVars, genVars, foldVars, text, ciphertext, sample_fixed, plaintext,
                   expected_ciphertext, remaining_num_traces, seg,
                   dummy_plaintext, projectVars, deviceVars, histVars,
                   handler_registered, exit_status, error>>

(* The segment count is not asserted. *)
CheckWavesNoAssert ==
    /\ pc = "waves"
    /\ expected_ciphertext' = None
    /\ seg' = 0
    /\ pc' = "segment"
    /\ UNCHANGED <<cfgVars, genVars, foldVars, text, ciphertext, sample_fixed, plaintext,
                   remaining_num_traces, waves, dummy_plaintext, projectVars,
                   deviceVars, histVars, handler_registered, exit_status, error>>

(* The accumulator is kept from the previous batch. *)
CheckWavesKeepAccumulator ==
    /\ pc = "waves"
    /\ IF waves.segments = capture_cfg.num_segments
       THEN /\ seg' = 0
            /\ pc' = "segment"
            /\ UNCHANGED error
       ELSE /\ pc' = "raised"
            /\ error' = "AssertionError:segments"
            /\ UNCHANGED seg
    /\ UNCHANGED <<cfgVars, genVars, foldVars, text, ciphertext, sample_fixed, plaintext,
                   expected_ciphertext, remaining_num_traces, waves,
                   dummy_plaintext, projectVars, deviceVars, histVars,
                   handler_registered, exit_status>>

(* capture, lines 310-314: the segment count assertion, then the           *)
(* accumulator is cleared and the segment loop starts.                     *)
CheckWaves ==
    /\ pc = "waves"
    /\ IF waves.segments = capture_cfg.num_segments
       THEN /\ expected_ciphertext' = None
            /\ seg' = 0
            /\ pc' = "segment"
            /\ UNCHANGED error
       ELSE /\ pc' = "raised"
            /\ error' = "AssertionError:segments"
            /\ UNCHANGED <<expected_ciphertext, seg>>
    /\ UNCHANGED <<cfgVars, genVars, foldVars, text, ciphertext, sample_fixed, plaintext,
                   remaining_num_traces, waves, dummy_plaintext, projectVars,
                   deviceVars, histVars, handler_registered, exit_status>>

(* capture, lines 315-323: reference material of segment i. *)
GenerateSegment ==
    /\ pc = "segment"
    /\ IF capture_cfg.batch_mode \/ capture_cfg.capture_mode = "sha3_random"
       THEN \E r \in generate_ref_crypto(sample_fixed, capture_cfg.capture_mode,
                                         capture_cfg.batch_mode, text,
                                         capture_cfg.text_fixed,
                                         capture_cfg.text_len_bytes) :
              /\ text' = r.plaintext
              /\ ciphertext' = r.ciphertext
              /\ sample_fixed' = r.sample_fixed
              /\ dummy_plaintext' = IF r.dummy = None THEN dummy_plaintext ELSE r.dummy
              /\ sel_history' = Append(sel_history, sample_fixed)
              /\ dummy_history' = IF r.dummy = None THEN dummy_history
                                  ELSE Append(dummy_history, r.dummy[1])
              /\ iter_digests' = Append(iter_digests, r.ciphertext)
              /\ prng_count' = prng_count + r.draws
       ELSE UNCHANGED <<text, ciphertext, sample_fixed, dummy_plaintext,
                        sel_history, dummy_history, iter_digests, prng_count>>
    /\ pc' = "store"
    /\ UNCHANGED <<cfgVars, genVars, foldVars, plaintext, expected_ciphertext, remaining_num_traces,
                   seg, waves, projectVars, deviceVars, handler_registered,
                   exit_status, error, arm_count, trigger_count, read_count,
                   iter_appended, mismatched>>

(* The block drawn in sha3_random mode is stored as the plaintext. *)
StoreTraceDrawn ==
    /\ pc = "store"
    /\ IF waves.samples >= 1
       THEN /\ project_traces' = Append(project_traces,
                                        [wave |-> seg, plaintext |-> plaintext,
                                         ciphertext |-> ciphertext])
            /\ iter_appended' = iter_appended + 1
            /\ pc' = "fold"
            /\ UNCHANGED error
       ELSE /\ pc' = "raised"
            /\ error' = "AssertionError:wave"
            /\ UNCHANGED <<project_traces, iter_appended>>
    /\ UNCHANGED <<cfgVars, genVars, foldVars, loopVars, project_saved, deviceVars,
                   handler_registered, exit_status, arm_count, trigger_count,
                   read_count, sel_history, dummy_history, iter_digests,
                   mismatched, prng_count>>

(* capture, lines 324-330: wave sanity check and project.append_trace. *)
StoreTrace ==
    /\ pc = "store"
    /\ IF waves.samples >= 1
       THEN /\ project_traces' = Append(project_traces,
                                        [wave |-> seg, plaintext |-> text,
                                         ciphertext |-> ciphertext])
            /\ iter_appended' = iter_appended + 1
            /\ pc' = "fold"
            /\ UNCHANGED error
       ELSE /\ pc' = "raised"
            /\ error' = "AssertionError:wave"
            /\ UNCHANGED <<project_traces, iter_appended>>
    /\ UNCHANGED <<cfgVars, genVars, foldVars, loopVars, project_saved, deviceVars,
                   handler_registered, exit_status, arm_count, trigger_count,
                   read_count, sel_history, dummy_history, iter_digests,
                   mismatched, prng_count>>

(* The comparison is reached after every segment. *)
FoldSegmentEarlyCheck ==
    /\ pc = "fold"
    /\ IF capture_cfg.capture_mode = "sha3_random"
       THEN /\ \E blk \in RandomBytes(RandomBlockLen) : plaintext' = blk
            /\ prng_count' = prng_count + RandomBlockLen
       ELSE UNCHANGED <<plaintext, prng_count>>
    /\ expected_ciphertext' = Fold(capture_cfg.batch_mode, expected_ciphertext,
                                   ciphertext)
    /\ seg' = seg + 1
    /\ pc' = "check"
    /\ UNCHANGED <<cfgVars, genVars, foldVars, text, ciphertext, sample_fixed,
                   remaining_num_traces, waves, dummy_plaintext, projectVars,
                   deviceVars, arm_count, trigger_count, read_count, sel_history,
                   dummy_history, iter_digests, iter_appended, mismatched,
                   handler_registered, exit_status, error>>

(* capture, lines 332-344: in sha3_random mode a 16 byte block is drawn    *)
(* into plaintext; the digest is folded into expected_ciphertext; the      *)
(* segment loop advances.                                                  *)
FoldSegment ==
    /\ pc = "fold"
    /\ IF capture_cfg.capture_mode = "sha3_random"
       THEN /\ \E blk \in RandomBytes(RandomBlockLen) : plaintext' = blk
            /\ prng_count' = prng_count + RandomBlockLen
       ELSE UNCHANGED <<plaintext, prng_count>>
    /\ expected_ciphertext' = Fold(capture_cfg.batch_mode, expected_ciphertext,
                                   ciphertext)
    /\ seg' = seg + 1
    /\ pc' = IF seg + 1 < capture_cfg.num_segments THEN "segment" ELSE "check"
    /\ UNCHANGED <<cfgVars, genVars, foldVars, text, ciphertext, sample_fixed,
                   remaining_num_traces, waves, dummy_plaintext, projectVars,
                   deviceVars, arm_count, trigger_count, read_count, sel_history,
                   dummy_history, iter_digests, iter_appended, mismatched,
                   handler_registered, exit_status, error>>

(* The comparison is not asserted. *)
check_ciphertextNoAssert(actual, expected, ciphertext_len) == TRUE

(* The whole expected value is compared. *)
check_ciphertextWhole(actual, expected, ciphertext_len) == actual = expected

(* check_ciphertext, line 245: the asserted condition. *)
check_ciphertext(actual, expected, ciphertext_len) ==
    actual = Slice(expected, ciphertext_len)

(* capture, lines 346-348 and check_ciphertext: read back and compare. *)
CheckCiphertext ==
    /\ pc = "check"
    /\ \E actual \in DeviceReports(expected_ciphertext, capture_cfg.output_len) :
         /\ actual_last_ciphertext' = actual
         /\ read_count' = read_count + 1
         /\ mismatched' = (mismatched
                           \/ actual # Slice(expected_ciphertext, capture_cfg.output_len))
         /\ IF check_ciphertext(actual, expected_ciphertext, capture_cfg.output_len)
            THEN /\ pc' = "update"
                 /\ UNCHANGED error
            ELSE /\ pc' = "raised"
                 /\ error' = "AssertionError:ciphertext"
    /\ UNCHANGED <<cfgVars, genVars, foldVars, loopVars, projectVars, device_fixed_msg, device_msg,
                   device_batch, handler_registered, exit_status, arm_count,
                   trigger_count, sel_history, dummy_history, iter_digests,
                   iter_appended, prng_count>>

(* The loop counter goes down by one per iteration. *)
UpdateLoopByOne ==
    /\ pc = "update"
    /\ remaining_num_traces' = remaining_num_traces - 1
    /\ pc' = "while"
    /\ UNCHANGED <<cfgVars, genVars, foldVars, text, ciphertext, sample_fixed, plaintext,
                   expected_ciphertext, seg, waves, dummy_plaintext, projectVars,
                   deviceVars, histVars, handler_registered, exit_status, error>>

(* capture, lines 350-355: optimize_capture and the loop counter. *)
UpdateLoop ==
    /\ pc = "update"
    /\ remaining_num_traces' = remaining_num_traces - capture_cfg.num_segments
    /\ pc' = "while"
    /\ UNCHANGED <<cfgVars, genVars, foldVars, text, ciphertext, sample_fixed, plaintext,
                   expected_ciphertext, seg, waves, dummy_plaintext, projectVars,
                   deviceVars, histVars, handler_registered, exit_status, error>>

(* main, lines 427-446: after capture returns the project is saved. *)
MainFinish ==
    /\ pc = "return"
    /\ project_saved' = project_traces
    /\ exit_status' = "success"
    /\ pc' = "exited"
    /\ UNCHANGED <<cfgVars, genVars, foldVars, loopVars, project_traces, deviceVars, histVars,
                   handler_registered, error>>

(* The failure path saves the project before the process exits. *)
TerminateSaving ==
    /\ pc = "raised"
    /\ exit_status' = "failure"
    /\ project_saved' = project_traces
    /\ pc' = "exited"
    /\ UNCHANGED <<cfgVars, genVars, foldVars, loopVars, project_traces, deviceVars, histVars,
                   handler_registered, error>>

(* main, lines 425-446: an exception raised in capture is caught nowhere;  *)
(* it leaves capture and main and the interpreter exits with a failure.    *)
Terminate ==
    /\ pc = "raised"
    /\ exit_status' = "failure"
    /\ pc' = "exited"
    /\ UNCHANGED <<cfgVars, genVars, foldVars, loopVars, projectVars, deviceVars, histVars,
                   handler_registered, error>>

(* The handler exits without saving the project. *)
abort_handler_no_save(traces, saved) ==
    [project_saved |-> saved, exit_status |-> "success"]

(* abort_handler_during_loop, lines 44-47: the project is never None here. *)
abort_handler_during_loop(traces, saved) ==
    [project_saved |-> traces, exit_status |-> "success"]

(* SIGINT, at any time before the interpreter has exited, also while an   *)
(* exception is leaving capture.  With the handler installed the project   *)
(* is closed with save and sys.exit(0) ends the process; before line 284   *)
(* Python's default handler raises KeyboardInterrupt.                      *)
Interrupt ==
    /\ pc \notin {"exited", "unit"}
    /\ IF handler_registered
       THEN LET h == abort_handler_during_loop(project_traces, project_saved)
            IN  /\ project_saved' = h.project_saved
                /\ exit_status' = h.exit_status
                /\ error' = "SystemExit"
                /\ pc' = "exited"
       ELSE /\ error' = "KeyboardInterrupt"
            /\ pc' = "raised"
            /\ UNCHANGED <<project_saved, exit_status>>
    /\ UNCHANGED <<cfgVars, genVars, foldVars, loopVars, project_traces, deviceVars, histVars,
                   handler_registered>>

Next ==
    \/ SetFixedMsg
    \/ RegisterHandler
    \/ Arm
    \/ CaptureReturn
    \/ AbsorbBatch
    \/ Absorb
    \/ TransferWaves
    \/ CheckWaves
    \/ GenerateSegment
    \/ StoreTrace
    \/ FoldSegment
    \/ CheckCiphertext
    \/ UpdateLoop
    \/ MainFinish
    \/ Terminate
    \/ Interrupt

Spec == Init /\ [][Next]_vars

-----------------------------------------------------------------------------
(* util/data_generator.py driven on its own: any sequence of calls on the   *)
(* instance, with a fresh instance driven alongside once set_start has run. *)

MaxGenCalls == 5

(* A configuration main accepts, for the runs that do not capture. *)
IdleConfig ==
    /\ cfg = MainCfg("sha3_fvsr_data_batch", 1)
    /\ \E tf \in FixedTexts(1) :
          capture_cfg = MainConfig("sha3_fvsr_data_batch", 1, 1, DigestLen, 1, tf)
    /\ pc = "unit"
    /\ CaptureLocals

InitGen ==
    /\ IdleConfig
    /\ GenIdle
    /\ FoldIdle

GetterOutput(r) == [pt |-> r.pt, ct |-> r.ct, key |-> r.key]

(* One call of a getter on the instance; the fresh instance gets the same   *)
(* call once the two are started together.                                  *)
CallGetter(op, r, rr) ==
    /\ pc = "unit"
    /\ gen_calls < MaxGenCalls
    /\ gen_op' = op
    /\ gen_before' = gen
    /\ gen_calls' = gen_calls + 1
    /\ gen' = r.self
    /\ gen_out' = GetterOutput(r)
    /\ IF gen_phase = "sync"
       THEN /\ gen_ref' = rr.self
            /\ gen_ref_out' = GetterOutput(rr)
       ELSE UNCHANGED <<gen_ref, gen_ref_out>>
    /\ UNCHANGED <<captureVars, foldVars, gen_phase, gen_reset_from>>

GetFixed ==
    /\ CallGetter("get_fixed", get_fixed(gen), get_fixed(gen_ref))
    /\ fixed_pts' = Append(fixed_pts, get_fixed(gen).pt)
    /\ UNCHANGED random_pts

GetRandom ==
    /\ CallGetter("get_random", get_random(gen), get_random(gen_ref))
    /\ random_pts' = Append(random_pts, get_random(gen).pt)
    /\ UNCHANGED fixed_pts

GetKmacFixed ==
    /\ CallGetter("get_kmac_fixed", get_kmac_fixed(gen), get_kmac_fixed(gen_ref))
    /\ fixed_pts' = Append(fixed_pts, get_kmac_fixed(gen).pt)
    /\ UNCHANGED random_pts

GetKmacRandom ==
    /\ CallGetter("get_kmac_random", get_kmac_random(gen), get_kmac_random(gen_ref))
    /\ random_pts' = Append(random_pts, get_kmac_random(gen).pt)
    /\ UNCHANGED fixed_pts

(* One call of advance_fixed or advance_random: the state moves, nothing   *)
(* is returned, and the run of consecutive getter calls ends.              *)
CallAdvance(op, g, gr) ==
    /\ pc = "unit"
    /\ gen_calls < MaxGenCalls
    /\ gen_op' = op
    /\ gen_before' = gen
    /\ gen_calls' = gen_calls + 1
    /\ gen' = g
    /\ gen_out' = None
    /\ IF gen_phase = "sync"
       THEN /\ gen_ref' = gr
            /\ gen_ref_out' = None
       ELSE UNCHANGED <<gen_ref, gen_ref_out>>
    /\ UNCHANGED <<captureVars, foldVars, gen_phase, gen_reset_from>>

AdvanceFixed ==
    /\ CallAdvance("advance_fixed", advance_fixed(gen), advance_fixed(gen_ref))
    /\ fixed_pts' = <<>>
    /\ UNCHANGED random_pts

AdvanceRandom ==
    /\ CallAdvance("advance_random", advance_random(gen), advance_random(gen_ref))
    /\ random_pts' = <<>>
    /\ UNCHANGED fixed_pts

(* set_start on the instance; a fresh instance is created next to it. *)
SetStart ==
    /\ pc = "unit"
    /\ gen_calls < MaxGenCalls
    /\ gen_op' = "set_start"
    /\ gen_before' = gen
    /\ gen_calls' = gen_calls + 1
    /\ gen' = set_start(gen)
    /\ gen_reset_from' = gen
    /\ gen_ref' = InitialGenerator
    /\ gen_phase' = "sync"
    /\ gen_out' = None
    /\ gen_ref_out' = None
    /\ fixed_pts' = <<>>
    /\ random_pts' = <<>>
    /\ UNCHANGED <<captureVars, foldVars>>

NextGen ==
    \/ GetFixed
    \/ GetRandom
    \/ GetKmacFixed
    \/ GetKmacRandom
    \/ AdvanceFixed
    \/ AdvanceRandom
    \/ SetStart

SpecGen == InitGen /\ [][NextGen]_vars

-----------------------------------------------------------------------------
(* The fold of capture (lines 337-344) applied to a batch of digests in any *)
(* order and split into two groups that are joined at the end.              *)

FoldLen == 3

(* Digests generate_ref_crypto can produce for one byte of text. *)
DigestPool == { SHA3_256(t) : t \in FixedTexts(1) \cup RandomBytes(1) }

Orders(n) == { f \in [1..n -> 1..n] : \A i, j \in 1..n : f[i] = f[j] => i = j }

InitFold ==
    /\ IdleConfig
    /\ GenIdle
    /\ fold_inputs \in [1..FoldLen -> DigestPool]
    /\ fold_order \in Orders(FoldLen)
    /\ fold_acc = None
    /\ fold_tail = None
    /\ fold_left = 0
    /\ fold_right = 0
    /\ fold_result = None

(* The next digest from the front of the order goes into the accumulator. *)
FoldLeft ==
    /\ pc = "unit"
    /\ fold_result = None
    /\ fold_left + fold_right < Len(fold_inputs)
    /\ fold_acc' = Fold(TRUE, fold_acc, fold_inputs[fold_order[fold_left + 1]])
    /\ fold_left' = fold_left + 1
    /\ UNCHANGED <<captureVars, genVars, fold_inputs, fold_order, fold_tail,
                   fold_right, fold_result>>

(* The next digest from the back of the order goes into a second accumulator. *)
FoldRight ==
    /\ pc = "unit"
    /\ fold_result = None
    /\ fold_left + fold_right < Len(fold_inputs)
    /\ fold_tail' = Fold(TRUE, fold_tail,
                         fold_inputs[fold_order[Len(fold_inputs) - fold_right]])
    /\ fold_right' = fold_right + 1
    /\ UNCHANGED <<captureVars, genVars, fold_inputs, fold_order, fold_acc,
                   fold_left, fold_result>>

(* The two groups are folded into one value. *)
FoldJoin ==
    /\ pc = "unit"
    /\ fold_result = None
    /\ Len(fold_inputs) > 0
    /\ fold_left + fold_right = Len(fold_inputs)
    /\ fold_result' = IF fold_tail = None THEN fold_acc
                      ELSE Fold(TRUE, fold_acc, fold_tail)
    /\ UNCHANGED <<captureVars, genVars, fold_inputs, fold_order, fold_acc,
                   fold_tail, fold_left, fold_right>>

NextFold ==
    \/ FoldLeft
    \/ FoldRight
    \/ FoldJoin

SpecFold == InitFold /\ [][NextFold]_vars

-----------------------------------------------------------------------------
(* Properties. *)

FvsrMode == capture_cfg.capture_mode = "sha3_fvsr_data"
RandomMode == capture_cfg.capture_mode = "sha3_random"
BatchMode == capture_cfg.batch_mode
NumSegments == capture_cfg.num_segments

(* Byte k of the XOR of the first n digests of ds. *)
RECURSIVE XorColumn(_, _, _)
XorColumn(ds, k, n) ==
    IF n = 0 THEN 0 ELSE XorByte(XorColumn(ds, k, n - 1), ds[n][k])

(* The byte-wise XOR of the digests of ds. *)
XorOfDigests(ds) == [k \in 1..DigestLen |-> XorColumn(ds, k, Len(ds))]

(* The ciphertexts of the last n traces of the project, in order. *)
LastCiphertexts(n) ==
    [j \in 1..n |-> project_traces[(Len(project_traces) - n) + j].ciphertext]

(* C1: when the device comparison is reached, one digest per segment has   *)
(* been generated in this iteration; in batch mode the expected value is   *)
(* the byte-wise XOR of those digests in segment order, after the first    *)
(* segment the accumulator is that segment's digest, and with one segment  *)
(* (batch or not) the expected value is the single digest.                 *)
C1_ExpectedIsXorOfSegmentDigests ==
    /\ pc = "check" =>
         /\ Len(iter_digests) = NumSegments
         /\ BatchMode => expected_ciphertext = XorOfDigests(iter_digests)
         /\ NumSegments = 1 => expected_ciphertext = iter_digests[1]
    /\ (BatchMode /\ seg = 1 /\ pc \in {"segment", "check"}) =>
         expected_ciphertext = iter_digests[1]

C1_Witness ==
    /\ pc = "check"
    /\ BatchMode /\ FvsrMode
    /\ Len(iter_digests) = 2
    /\ iter_digests[1] # iter_digests[2]
    /\ expected_ciphertext # iter_digests[2]

(* C2: the accumulator is empty whenever the segment loop of a batch       *)
(* starts, and the value compared at the end of a batch is the XOR of the  *)
(* ciphertexts of exactly the num_segments traces appended in that batch.  *)
C2_AccumulatorResetPerBatch ==
    /\ (pc = "segment" /\ seg = 0) => expected_ciphertext = None
    /\ (pc = "check" /\ BatchMode) =>
         /\ Len(project_traces) >= NumSegments
         /\ expected_ciphertext = XorOfDigests(LastCiphertexts(NumSegments))

C2_Witness ==
    /\ BatchMode
    /\ arm_count = 2
    /\ pc = "check"
    /\ Len(project_traces) = 2 * NumSegments
    /\ project_traces[1].ciphertext # project_traces[Len(project_traces)].ciphertext

(* C3 as stated: the first generate_ref_crypto call of an FVSR session is  *)
(* made with the selector set to fixed.                                    *)
C3_FirstSampleFixed ==
    (FvsrMode /\ Len(sel_history) >= 1) => sel_history[1] = 1

(* C3 amended: the first generate_ref_crypto call of an FVSR session is    *)
(* made with sample_fixed = 0, the random branch.                          *)
C3_FirstSampleRandom ==
    (FvsrMode /\ Len(sel_history) >= 1) => sel_history[1] = 0

C3_Witness ==
    /\ FvsrMode /\ BatchMode
    /\ Len(sel_history) >= 1
    /\ Len(project_traces) >= 1
    /\ project_traces[1].plaintext \in RandomBytes(capture_cfg.text_len_bytes)

(* C4 as stated: in non-batch sha3_random mode, from the second iteration  *)
(* on the plaintext given to the device is the random block drawn at the   *)
(* end of the previous iteration.                                          *)
C4_RandomModeSendsFreshPlaintext ==
    (RandomMode /\ ~BatchMode /\ pc = "transfer" /\ trigger_count >= 2) =>
        device_msg = plaintext

(* C5 as stated: in non-batch FVSR mode every cycle that has passed its    *)
(* generator call has obtained one plaintext/digest pair, has triggered    *)
(* the device with that plaintext, and has set the selector to the low bit *)
(* of its first byte.                                                      *)
C5_NonBatchFvsrCycleUsesGenerator ==
    (FvsrMode /\ ~BatchMode /\ Len(sel_history) >= 1 /\ pc # "trigger") =>
        /\ Len(sel_history) = arm_count
        /\ trigger_count = arm_count
        /\ ciphertext # None
        /\ device_msg = text
        /\ sample_fixed = LowBit(text[1])

(* C6: in batch FVSR mode every generate_ref_crypto call makes one dummy   *)
(* draw; the selector a call is made with is the low bit of the first byte *)
(* of the previous call's dummy draw, also when the previous call belongs  *)
(* to the previous batch; a call made with the selector set stores the     *)
(* fixed text, any other call a block drawn from the PRNG.                 *)
C6_BatchSelectorLookahead ==
    (FvsrMode /\ BatchMode) =>
        /\ Len(dummy_history) = Len(sel_history)
        /\ \A j \in 1..(Len(sel_history) - 1) :
              sel_history[j + 1] = LowBit(dummy_history[j])
        /\ \A j \in 1..Len(project_traces) :
              IF sel_history[j] # 0
              THEN project_traces[j].plaintext = capture_cfg.text_fixed
              ELSE project_traces[j].plaintext \in RandomBytes(capture_cfg.text_len_bytes)

C6_Witness ==
    /\ FvsrMode /\ BatchMode
    /\ arm_count = 2
    /\ Len(sel_history) = NumSegments + 1
    /\ sel_history[NumSegments + 1] = 1
    /\ LowBit(dummy_history[NumSegments]) = 1
    /\ pc = "fold"
    /\ text = capture_cfg.text_fixed

(* C7: once a digest mismatch has been detected the scope is not armed,    *)
(* the device not triggered, no segment generated, no trace appended and   *)
(* no digest read back; the process is ending, with the assertion error    *)
(* or with the SystemExit of an interrupt served while the error unwinds.  *)
C7_MismatchIsFatal ==
    /\ [](mismatched =>
            /\ pc \in {"raised", "exited"}
            /\ error \in {"AssertionError:ciphertext", "SystemExit"})
    /\ [][mismatched =>
            /\ arm_count' = arm_count
            /\ trigger_count' = trigger_count
            /\ read_count' = read_count
            /\ sel_history' = sel_history
            /\ project_traces' = project_traces]_vars

C7_Witness ==
    /\ mismatched
    /\ pc = "exited"
    /\ arm_count = 2
    /\ remaining_num_traces > NumSegments
    /\ actual_last_ciphertext # Slice(expected_ciphertext, capture_cfg.output_len)

FatalInLoop == error \in {"AssertionError:segments", "AssertionError:ciphertext"}

(* C8 as stated: after a digest mismatch or a segment count mismatch the   *)
(* process exits with a failure and the appended traces are persisted.     *)
C8_FatalPersistsTraces ==
    (pc = "exited" /\ FatalInLoop) =>
        /\ exit_status = "failure"
        /\ project_saved = project_traces

(* C8 amended: a process that ends with the assertion error of a digest    *)
(* mismatch or a segment count mismatch exits with a failure and has not   *)
(* saved the project; the error is replaced only by the abort handler      *)
(* serving an interrupt, which saves the project and exits with success.   *)
C8_FatalExitsWithoutSaving ==
    /\ []((pc = "exited" /\ FatalInLoop) =>
            /\ exit_status = "failure"
            /\ project_saved = <<>>)
    /\ []((pc = "raised" /\ FatalInLoop) => project_saved = <<>>)
    /\ [][(FatalInLoop /\ error' # error) =>
            /\ pc = "raised"
            /\ handler_registered
            /\ error' = "SystemExit"
            /\ exit_status' = "success"
            /\ project_saved' = project_traces]_vars

C8_Witness ==
    /\ pc = "exited"
    /\ error = "AssertionError:segments"
    /\ Len(project_traces) >= 1
    /\ exit_status = "failure"

(* C9: when the installed handler has served an interrupt, the project     *)
(* holds every trace appended so far as saved and the process has exited   *)
(* with success; serving the interrupt and everything after it raises no   *)
(* digest mismatch, and nothing is armed, triggered, generated, appended   *)
(* or compared afterwards.                                                 *)
C9_InterruptSavesAndStops ==
    /\ [](error = "SystemExit" =>
            /\ pc = "exited"
            /\ exit_status = "success"
            /\ project_saved = project_traces)
    /\ [][error' = "SystemExit" =>
            /\ mismatched' = mismatched
            /\ arm_count' = arm_count
            /\ trigger_count' = trigger_count
            /\ read_count' = read_count
            /\ sel_history' = sel_history
            /\ project_traces' = project_traces]_vars
    /\ [][error = "SystemExit" =>
            /\ error' = error
            /\ exit_status' = exit_status
            /\ project_saved' = project_saved]_vars

C9_Witness ==
    /\ error = "SystemExit"
    /\ pc = "exited"
    /\ BatchMode
    /\ iter_appended = 1
    /\ NumSegments = 2
    /\ Len(project_traces) = 3
    /\ project_saved = project_traces

(* C10: the segment loop is entered only with a wave block of num_segments *)
(* segments; when the segment count assertion fails, nothing has been      *)
(* generated, appended or read back since the scope was armed.             *)
C10_SegmentCountCheckedFirst ==
    /\ pc \in {"segment", "store", "fold", "check", "update"} =>
         waves.segments = NumSegments
    /\ error = "AssertionError:segments" =>
         /\ waves.segments # NumSegments
         /\ Len(iter_digests) = 0
         /\ iter_appended = 0
         /\ Len(sel_history) = (arm_count - 1) * NumSegments
         /\ Len(project_traces) = (arm_count - 1) * NumSegments
         /\ read_count = arm_count - 1

C10_Witness ==
    /\ error = "AssertionError:segments"
    /\ arm_count = 2
    /\ BatchMode
    /\ waves.segments = NumSegments + 1
    /\ Len(project_traces) = NumSegments

(* C11: outside batch mode num_segments is 1 whatever the configuration    *)
(* file says, and an iteration of non-batch FVSR mode that has passed the  *)
(* trigger step has made one generator call, holds one stimulus/digest     *)
(* pair, has triggered the device once with that stimulus, and a completed *)
(* iteration has stored one trace.                                         *)
C11_NonBatchOnePairOneTriggerOneTrace ==
    /\ ~ContainsBatch(cfg.which_test) => NumSegments = 1
    /\ (FvsrMode /\ ~BatchMode /\ arm_count >= 1 /\ pc # "trigger"
          /\ error \notin {"SystemExit", "KeyboardInterrupt"}) =>
         /\ Len(sel_history) = arm_count
         /\ Len(iter_digests) = 1
         /\ trigger_count = arm_count
         /\ device_msg = text
         /\ pc \in {"update", "while", "return"} =>
               Len(project_traces) = arm_count

(* C14: a comparison that passes read back exactly the first output_len    *)
(* bytes of the expected value; a comparison that fails found a differing  *)
(* byte among the first output_len bytes.                                  *)
C14_ComparisonCoversOutputLen ==
    /\ pc = "update" =>
         /\ Len(actual_last_ciphertext) = capture_cfg.output_len
         /\ actual_last_ciphertext = Slice(expected_ciphertext, capture_cfg.output_len)
    /\ error = "AssertionError:ciphertext" =>
         \E k \in 1..capture_cfg.output_len :
            actual_last_ciphertext[k] # expected_ciphertext[k]

C14_Witness ==
    /\ pc = "update"
    /\ capture_cfg.output_len = SmallOutputLen
    /\ Len(expected_ciphertext) = DigestLen
    /\ Len(actual_last_ciphertext) = SmallOutputLen
    /\ BatchMode
    /\ NumSegments = 2

(* C15: within an iteration the trigger follows the arm, the transfer and  *)
(* the segments follow the trigger, the read-back follows the last segment *)
(* (all num_segments digests generated and folded), with one trigger and   *)
(* one read-back per arm; the scope is armed again only after the previous *)
(* comparison has passed.                                                  *)
C15_IterationOrder ==
    /\ [](/\ pc = "trigger" =>
               (trigger_count = arm_count - 1 /\ read_count = arm_count - 1)
          /\ pc \in {"transfer", "waves", "segment", "store", "fold", "check"} =>
               (trigger_count = arm_count /\ read_count = arm_count - 1)
          /\ pc \in {"segment", "store", "fold"} => seg < NumSegments
          /\ pc = "check" =>
               (seg = NumSegments /\ Len(iter_digests) = NumSegments
                  /\ iter_appended = NumSegments)
          /\ pc \in {"update", "while", "return"} =>
               (trigger_count = arm_count /\ read_count = arm_count /\ ~mismatched))
    /\ [][arm_count' # arm_count =>
            /\ arm_count' = arm_count + 1
            /\ pc = "while"
            /\ trigger_count = arm_count
            /\ read_count = arm_count
            /\ ~mismatched
            /\ arm_count >= 1 =>
                 actual_last_ciphertext =
                     Slice(expected_ciphertext, capture_cfg.output_len)]_vars

C15_Witness ==
    /\ pc = "check"
    /\ arm_count = 2
    /\ trigger_count = 2
    /\ read_count = 1
    /\ BatchMode
    /\ NumSegments = 2
    /\ seg = 2

(* C16 as stated: an interrupt at any point of capture, the setting of the *)
(* fixed message included, is served by the abort handler: the project is  *)
(* closed with save and the process exits.                                 *)
C16_AbortFromEveryState ==
    error \in {"SystemExit", "KeyboardInterrupt"} =>
        /\ error = "SystemExit"
        /\ pc = "exited"
        /\ project_saved = project_traces

(* C16: an interrupt is served by the abort handler exactly when it        *)
(* arrives after the handler was installed; one that arrives earlier       *)
(* (while the fixed message is set) raises KeyboardInterrupt before any    *)
(* arm and the process fails without closing the project.                  *)
C16_AbortOnceHandlerInstalled ==
    /\ error = "SystemExit" =>
         /\ handler_registered
         /\ pc = "exited"
         /\ exit_status = "success"
         /\ project_saved = project_traces
    /\ error = "KeyboardInterrupt" =>
         /\ ~handler_registered
         /\ arm_count = 0
         /\ exit_status # "success"
         /\ project_saved = <<>>
    /\ pc # "exited" => ENABLED Interrupt

C16_Witness ==
    /\ error = "SystemExit"
    /\ pc = "exited"
    /\ arm_count = 1
    /\ trigger_count = 0
    /\ project_saved = project_traces

(* C17: in batch FVSR mode a generate_ref_crypto call made with the        *)
(* selector clear draws text_len_bytes + 16 bytes from the PRNG, one made  *)
(* with the selector set draws 16; the stored plaintext has text_len_bytes *)
(* bytes and the stored digest is the digest of that plaintext alone.      *)
C17_BatchPrngConsumption ==
    /\ []((FvsrMode /\ BatchMode) =>
            \A j \in 1..Len(project_traces) :
               /\ Len(project_traces[j].plaintext) = capture_cfg.text_len_bytes
               /\ project_traces[j].ciphertext = SHA3_256(project_traces[j].plaintext))
    /\ [][(FvsrMode /\ BatchMode) =>
            IF sel_history' # sel_history
            THEN prng_count' - prng_count =
                    (IF sample_fixed # 0 THEN 0 ELSE capture_cfg.text_len_bytes) + 16
            ELSE prng_count' = prng_count]_vars

C17_Witness ==
    /\ FvsrMode
    /\ BatchMode
    /\ sel_history = <<0, 1>>
    /\ capture_cfg.text_len_bytes = 2
    /\ prng_count = 34
    /\ Len(project_traces) = 2

FixedGetters == {"get_fixed", "get_kmac_fixed"}
RandomGetters == {"get_random", "get_kmac_random"}
FixedCalls == FixedGetters \cup {"advance_fixed"}
RandomCalls == RandomGetters \cup {"advance_random"}

(* C12: a getter returns the block as it was before the call and leaves    *)
(* the block encrypted once under key_generation; of the plaintexts        *)
(* returned by consecutive fixed getter calls each is the encryption of    *)
(* the one before, and the first is the initial fixed block unless         *)
(* advance_fixed was called alone before; likewise for the random getters. *)
C12_GetterReturnsThenAdvances ==
    /\ gen_op \in FixedGetters =>
         /\ gen_out.pt = gen_before.text_fixed
         /\ gen.text_fixed = AESEncrypt(key_generation, gen_before.text_fixed)
    /\ gen_op \in RandomGetters =>
         /\ gen_out.pt = gen_before.text_random
         /\ gen.text_random = AESEncrypt(key_generation, gen_before.text_random)
    /\ (gen_op \in FixedGetters /\ Len(fixed_pts) = gen_calls) =>
         fixed_pts[1] = InitialGenerator.text_fixed
    /\ (gen_op \in RandomGetters /\ Len(random_pts) = gen_calls) =>
         random_pts[1] = InitialGenerator.text_random
    /\ \A k \in 1..(Len(fixed_pts) - 1) :
          fixed_pts[k + 1] = AESEncrypt(key_generation, fixed_pts[k])
    /\ \A k \in 1..(Len(random_pts) - 1) :
          random_pts[k + 1] = AESEncrypt(key_generation, random_pts[k])

C12_Witness ==
    /\ Len(fixed_pts) = 3
    /\ Len(random_pts) = 2
    /\ gen_op = "get_fixed"
    /\ fixed_pts[3] # fixed_pts[2]
    /\ fixed_pts[2] # fixed_pts[1]

(* C13: after set_start the instance and a fresh instance that receive the *)
(* same getter calls are in the same state and return the same plaintext,  *)
(* digest and key at every call, whatever was called before set_start.     *)
C13_GeneratorDeterministic ==
    gen_phase = "sync" =>
        /\ gen = gen_ref
        /\ gen_out = gen_ref_out

C13_Witness ==
    /\ gen_phase = "sync"
    /\ gen_reset_from.text_fixed # InitialGenerator.text_fixed
    /\ gen_reset_from.key_random # InitialGenerator.key_random
    /\ gen_op = "get_random"
    /\ Len(fixed_pts) = 1
    /\ Len(random_pts) = 1
    /\ gen_out = gen_ref_out

(* The accumulator after folding the first n digests of ds in their order. *)
RECURSIVE FoldInOrder(_, _)
FoldInOrder(ds, n) ==
    IF n = 0 THEN None ELSE Fold(TRUE, FoldInOrder(ds, n - 1), ds[n])

(* C18: folding a batch of digests in any order, in one group or in two    *)
(* groups that are folded together, gives the accumulator that folding     *)
(* them in their own order gives.                                          *)
C18_FoldOrderInsensitive ==
    fold_result # None =>
        fold_result = FoldInOrder(fold_inputs, Len(fold_inputs))

C18_Witness ==
    /\ fold_result # None
    /\ fold_left >= 1
    /\ fold_right >= 2
    /\ fold_order[1] > fold_order[2]
    /\ fold_inputs[1] # fold_inputs[2]
    /\ fold_inputs[2] # fold_inputs[3]
    /\ fold_result = XorOfDigests(fold_inputs)

(* C19: a fixed getter and advance_fixed leave text_random and key_random  *)
(* as they were, a random getter and advance_random leave text_fixed and   *)
(* key_fixed as they were, and key_fixed always has its initial value.     *)
C19_GettersTouchOwnHalf ==
    /\ [](gen.key_fixed = InitialGenerator.key_fixed)
    /\ [][gen_calls' # gen_calls =>
            /\ gen_op' \in FixedCalls =>
                 /\ gen'.text_random = gen.text_random
                 /\ gen'.key_random = gen.key_random
            /\ gen_op' \in RandomCalls =>
                 /\ gen'.text_fixed = gen.text_fixed
                 /\ gen'.key_fixed = gen.key_fixed
            /\ gen_op' # "set_start" => gen'.key_fixed = gen.key_fixed]_vars

C19_Witness ==
    /\ gen_op = "get_kmac_random"
    /\ gen.text_random # gen_before.text_random
    /\ gen.key_random # gen_before.key_random
    /\ gen.text_fixed = gen_before.text_fixed
    /\ gen.text_fixed # InitialGenerator.text_fixed
    /\ Len(fixed_pts) = 2

(* C20: whenever the capture loop runs in batch mode the capture mode is   *)
(* sha3_fvsr_data.                                                         *)
C20_BatchImpliesFvsr ==
    (BatchMode /\ arm_count >= 1) => FvsrMode

(* ceil(a / b) for positive b *)
CeilDiv(a, b) == (a + (b - 1)) \div b

(* The positions inside the capture loop and the steps the loop takes. *)
LoopPositions == {"while", "trigger", "transfer", "waves", "segment", "store",
                  "fold", "check", "update"}

LoopStep ==
    \/ Arm
    \/ CaptureReturn
    \/ AbsorbBatch
    \/ Absorb
    \/ TransferWaves
    \/ CheckWaves
    \/ GenerateSegment
    \/ StoreTrace
    \/ FoldSegment
    \/ CheckCiphertext
    \/ UpdateLoop

(* C21: the scope is armed at most ceil(num_traces / num_segments) times    *)
(* and the loop has a step to take at every position, so it ends;          *)
(* between iterations the counter is num_traces less num_segments per      *)
(* iteration and num_segments traces were appended per iteration; when the *)
(* loop ends without error or interrupt it has made exactly                *)
(* ceil(num_traces / num_segments) iterations and the number of appended   *)
(* traces is the smallest multiple of num_segments that is >= num_traces.  *)
C21_IterationCount ==
    /\ arm_count <= CeilDiv(capture_cfg.num_traces, NumSegments)
    /\ pc \in LoopPositions => ENABLED LoopStep
    /\ (pc = "while" /\ handler_registered) =>
         /\ remaining_num_traces = capture_cfg.num_traces - (arm_count * NumSegments)
         /\ Len(project_traces) = arm_count * NumSegments
    /\ (pc = "return" \/ (pc = "exited" /\ error = "none")) =>
         /\ arm_count = CeilDiv(capture_cfg.num_traces, NumSegments)
         /\ Len(project_traces) = arm_count * NumSegments
         /\ Len(project_traces) >= capture_cfg.num_traces
         /\ Len(project_traces) < capture_cfg.num_traces + NumSegments

C21_Witness ==
    /\ pc = "exited"
    /\ error = "none"
    /\ capture_cfg.num_traces = 3
    /\ NumSegments = 2
    /\ arm_count = 2
    /\ Len(project_traces) = 4

(* C22: outside batch mode the trace appended in an iteration carries the  *)
(* plaintext given to that iteration's absorb, its ciphertext is the       *)
(* reference digest of that plaintext and the value the device read-back   *)
(* is compared with; no trace is stored without a trigger.                 *)
C22_StoredTraceMatchesDevice ==
    ~BatchMode =>
        /\ Len(project_traces) <= trigger_count
        /\ \A j \in 1..Len(project_traces) :
              project_traces[j].ciphertext = SHA3_256(project_traces[j].plaintext)
        /\ pc \in {"fold", "check", "update"} =>
              /\ iter_appended = 1
              /\ Len(project_traces) = trigger_count
              /\ project_traces[Len(project_traces)].plaintext = device_msg
        /\ pc \in {"check", "update"} =>
              expected_ciphertext = project_traces[Len(project_traces)].ciphertext
        /\ pc = "update" =>
              actual_last_ciphertext =
                  Slice(project_traces[Len(project_traces)].ciphertext,
                        capture_cfg.output_len)

C22_Witness ==
    /\ ~BatchMode
    /\ RandomMode
    /\ pc = "update"
    /\ arm_count = 2
    /\ Len(project_traces) = 2
    /\ plaintext # None
    /\ project_traces[2].plaintext = device_msg
    /\ capture_cfg.output_len = DigestLen
    /\ actual_last_ciphertext = project_traces[2].ciphertext

=============================================================================
